---- MODULE Spec2Model ----
(***************************************************************************)
(* Model of the playback control loop and input dispatch of VideoPlayer.py *)
(* (class VideoPlayer, class InputManager) with the integer vector of      *)
(* VectorClasses.py.                                                       *)
(*                                                                         *)
(* vp   the VideoPlayer instance: its fields, the state of the capture     *)
(*      handle self.vid it owns (vid_opened, vid_pos), the state of the    *)
(*      window it draws to (window_pos, shown, overlay) and bookkeeping    *)
(*      counters of                                                        *)
(*      the calls made on both (releases, destroys, dels, dead_access,     *)
(*      invalid_seek).                                                     *)
(* pc   the position of the single thread of control in update().          *)
(* act  the operation executed by the last step.                           *)
(* key  the key code the last step dispatched (-1 when it dispatched none). *)
(* pre  the values of current_frame, screen_scale, is_paused at the moment *)
(*      the last step started.                                             *)
(***************************************************************************)
EXTENDS Integers, Sequences, FiniteSets, TLC

VARIABLES vp, pc, act, key, pre

vars == <<vp, pc, act, key, pre>>

\* ------------------------------------------------------------------ bounds

\* Largest frame count of an opened video (amount_of_frames in 0..MaxFrames).
MaxFrames == 4

\* Largest nominal frame rate of an opened video (frames_per_second in 1..MaxFps).
MaxFps == 2

\* Native sizes of the opened videos and sizes of the monitor.
VidSizes == {<<20, 10>>, <<7, 5>>}

MonitorSizes == {<<130, 70>>}

\* Largest frame count and the frame rates (integer part) of the sources the
\* timing of the loop is checked on.
MaxTimingFrames == 2

TimingRates == {0, 1, 25, 428, 429, 2001}

\* ------------------------------------------------- VectorClasses.IntVector2

Min(a, b) == IF a < b THEN a ELSE b

Max(a, b) == IF a > b THEN a ELSE b

\* int(n / d) of Python for d > 0: truncation toward zero.
Trunc(n, d) == IF n >= 0 THEN n \div d ELSE -((-n) \div d)

\* IntVector2.__add__
VecAdd(v, w) == <<v[1] + w[1], v[2] + w[2]>>

\* IntVector2.__mul__ / __rmul__ with a float operand num/den (den > 0):
\* IntVector2(int(self.x * other), int(self.y * other)).
VecMulFloat(v, num, den) == <<Trunc(v[1] * num, den), Trunc(v[2] * num, den)>>

\* ------------------------------------------------------------ Frame Source

\* The frame returned by a read that failed (None).
NoFrame == -1

\* cv2.VideoCapture.read(): the frame at the position counter, which then
\* advances; no frame at the end of the stream or on a released handle.
vid_read(s) ==
    IF s.vid_opened /\ s.vid_pos < s.amount_of_frames
    THEN [ret |-> TRUE, frame |-> s.vid_pos,
          s |-> [s EXCEPT !.vid_pos = s.vid_pos + 1]]
    ELSE [ret |-> FALSE, frame |-> NoFrame,
          s |-> [s EXCEPT !.dead_access = s.dead_access \/ ~s.vid_opened]]

\* cv2.VideoCapture.set(CAP_PROP_POS_FRAMES, k): a negative k positions the
\* source at 0; nothing is positioned on a released handle. invalid_seek
\* records that some k was no frame position of the source.
vid_set(s, k) ==
    IF s.vid_opened
    THEN [s EXCEPT !.vid_pos = Max(0, k),
                   !.invalid_seek = s.invalid_seek \/ k \notin 0..(s.amount_of_frames - 1)]
    ELSE [s EXCEPT !.dead_access = TRUE]

\* ------------------------------------------------------------- VideoPlayer

\* Faulty variant of get_frame_read: a failed read does not clear is_running.
get_frame_read_keeps_running(s) ==
    LET r == vid_read(s)
    IN  [ret |-> r.ret, frame |-> r.frame,
         s |-> [r.s EXCEPT !.current_frame = r.s.current_frame + 1]]

\* The read of get_frame and what follows it (lines 122-130).
get_frame_read(s) ==
    LET r == vid_read(s)
        t == [r.s EXCEPT !.current_frame = r.s.current_frame + 1]
    IN  [ret |-> r.ret, frame |-> r.frame,
         s |-> IF r.ret THEN t ELSE [t EXCEPT !.is_running = FALSE]]

\* Faulty variant of get_frame: the target is requested without the offset of one.
get_frame_no_offset(s, frame_to_get) ==
    IF frame_to_get # -1
    THEN LET f == Min(Max(0, frame_to_get), s.amount_of_frames)
         IN  get_frame_read([vid_set(s, f) EXCEPT !.current_frame = f])
    ELSE get_frame_read(s)

\* VideoPlayer.get_frame(frame_to_get): -1 asks for the next frame.
get_frame(s, frame_to_get) ==
    IF frame_to_get # -1
    THEN LET f == Min(Max(0, frame_to_get), s.amount_of_frames)
         IN  get_frame_read([vid_set(s, f - 1) EXCEPT !.current_frame = f - 1])
    ELSE get_frame_read(s)

\* ------------------------------------------------------------- TextManager
\* A string is modelled as the sequence of its pieces: literal parts and the
\* decimal numerals of the numbers formatted into it.

\* IntVector2.__str__: "({}, {})".format(self.x, self.y)
VecStr(v) == <<"(", ToString(v[1]), ", ", ToString(v[2]), ")">>

\* TextManager.convertTime: time.strftime("%M:%S", time.gmtime(seconds)), two
\* digits of minutes within the hour and two digits of seconds.
convertTime(seconds) ==
    LET m == (seconds \div 60) % 60
        sec == seconds % 60
    IN  <<ToString(m \div 10), ToString(m % 10), ":",
          ToString(sec \div 10), ToString(sec % 10)>>

\* Faulty variant of updateTexts: the resolution shown is the native size.
updateTexts_native_size(s) ==
    << convertTime(s.current_frame \div s.frames_per_second) \o <<"/">>
           \o convertTime(s.amount_of_frames \div s.frames_per_second),
       <<"R: ">> \o VecStr(s.vid_size),
       <<"F: ", IF s.flip_horizontally THEN "H" ELSE "-">> >>

\* TextManager.updateTexts: the list self.texts, which only putTexts reads,
\* right after the update. maxTime is as TextManager.__init__ computes it;
\* realFPS is taken to be the whole number frames_per_second.
updateTexts(s) ==
    << convertTime(s.current_frame \div s.frames_per_second) \o <<"/">>
           \o convertTime(s.amount_of_frames \div s.frames_per_second),
       <<"R: ">> \o VecStr(s.displayed_vid_size),
       <<"F: ", IF s.flip_horizontally THEN "H" ELSE "-">> >>

\* TextManager.putTexts: the texts are updated, joined with "; " and put on
\* the frame.
putTexts(s) ==
    LET texts == updateTexts(s)
    IN  [s EXCEPT !.overlay = texts[1] \o <<"; ">> \o texts[2] \o <<"; ">> \o texts[3]]

\* ------------------------------------------------------------- VideoPlayer

\* VideoPlayer.draw_frame(frame): cv2.resize raises on a frame of None, else
\* the frame is shown in the window, with the texts on it if show_debug_text.
draw_frame(s, frame) ==
    IF frame = NoFrame
    THEN [s EXCEPT !.crashed = TRUE]
    ELSE IF s.show_debug_text
         THEN [putTexts(s) EXCEPT !.shown = frame]
         ELSE [s EXCEPT !.shown = frame, !.overlay = <<>>]

\* get_frame(frame_to_get) followed by draw_frame of its frame, the tail of
\* every seek and view handler.
get_and_draw(s, frame_to_get) ==
    LET r == get_frame(s, frame_to_get) IN draw_frame(r.s, r.frame)

\* VideoPlayer.center_video
center_video(s) ==
    [s EXCEPT !.window_pos =
        <<(s.monitor_size[1] \div 2) - (s.displayed_vid_size[1] \div 2),
          (s.monitor_size[2] \div 2) - (s.displayed_vid_size[2] \div 2)>>]

\* Faulty variant of change_screen_size: is_fullscreen is not cleared.
change_screen_size_keeps_fullscreen(s) ==
    LET new_size ==
            IF s.screen_scale = 0 THEN s.vid_size
            ELSE IF s.screen_scale > 0
                 THEN VecAdd(s.vid_size, VecMulFloat(s.vid_size, s.screen_scale, 4))
                 ELSE VecMulFloat(s.vid_size, 85, 100 * (-s.screen_scale))
    IN  center_video([s EXCEPT !.displayed_vid_size = new_size])

\* VideoPlayer.change_screen_size: 0.25*screen_scale is the float
\* screen_scale/4 and 0.85 * -1/screen_scale the float 85/(100*(-screen_scale)).
change_screen_size(s) ==
    LET new_size ==
            IF s.screen_scale = 0 THEN s.vid_size
            ELSE IF s.screen_scale > 0
                 THEN VecAdd(s.vid_size, VecMulFloat(s.vid_size, s.screen_scale, 4))
                 ELSE VecMulFloat(s.vid_size, 85, 100 * (-s.screen_scale))
    IN  center_video([s EXCEPT !.is_fullscreen = FALSE,
                               !.displayed_vid_size = new_size])

\* Faulty variant of del_: the capture is released without asking isOpened.
del_unguarded(s) ==
    [s EXCEPT !.is_paused = FALSE, !.is_running = FALSE,
              !.vid_opened = FALSE,
              !.releases = s.releases + 1,
              !.destroys = s.destroys + 1,
              !.dels = s.dels + 1]

\* VideoPlayer.__del__
del_(s) ==
    [s EXCEPT !.is_paused = FALSE, !.is_running = FALSE,
              !.vid_opened = FALSE,
              !.releases = IF s.vid_opened THEN s.releases + 1 ELSE s.releases,
              !.destroys = s.destroys + 1,
              !.dels = s.dels + 1]

\* VideoPlayer.quit_video
quit_video(s) == del_(s)

\* VideoPlayer.toggle_pause
toggle_pause(s) == [s EXCEPT !.is_paused = ~s.is_paused]

\* VideoPlayer.skip_forward (skipping_time is 3 seconds)
skip_forward(s) == get_and_draw(s, s.current_frame + s.frames_per_second * s.skipping_time)

\* VideoPlayer.skip_backward
skip_backward(s) == get_and_draw(s, s.current_frame - s.frames_per_second * s.skipping_time)

\* VideoPlayer.skip_one_frame_forward
skip_one_frame_forward(s) == get_and_draw(s, s.current_frame + 1)

\* VideoPlayer.skip_one_frame_backward
skip_one_frame_backward(s) == get_and_draw(s, s.current_frame - 1)

\* VideoPlayer.toggle_debug
toggle_debug(s) ==
    get_and_draw([s EXCEPT !.show_debug_text = ~s.show_debug_text], s.current_frame)

\* Faulty variant of screen_scale_up: the level is not capped at 4.
screen_scale_up_uncapped(s) ==
    get_and_draw(change_screen_size([s EXCEPT !.screen_scale = s.screen_scale + 1]),
                 s.current_frame)

\* VideoPlayer.screen_scale_up
screen_scale_up(s) ==
    get_and_draw(change_screen_size([s EXCEPT !.screen_scale = Min(4, s.screen_scale + 1)]),
                 s.current_frame)

\* VideoPlayer.screen_scale_down
screen_scale_down(s) ==
    get_and_draw(change_screen_size([s EXCEPT !.screen_scale = Max(-4, s.screen_scale - 1)]),
                 s.current_frame)

\* Faulty variant of toggle_fullscreen: entering fullscreen resets the level to 0.
toggle_fullscreen_resets_scale(s) ==
    LET t == IF s.is_fullscreen
             THEN change_screen_size(s)
             ELSE center_video(
                    [s EXCEPT !.is_fullscreen = TRUE,
                              !.screen_scale = 0,
                              !.displayed_vid_size =
                                  VecAdd(s.monitor_size, <<s.monitor_size[1] \div 64, 0>>)])
    IN  get_and_draw(t, s.current_frame)

\* VideoPlayer.toggle_fullscreen
toggle_fullscreen(s) ==
    LET t == IF s.is_fullscreen
             THEN change_screen_size(s)
             ELSE center_video(
                    [s EXCEPT !.is_fullscreen = TRUE,
                              !.displayed_vid_size =
                                  VecAdd(s.monitor_size, <<s.monitor_size[1] \div 64, 0>>)])
    IN  get_and_draw(t, s.current_frame)

\* VideoPlayer.toggle_flip_image_horizontally
toggle_flip_image_horizontally(s) ==
    get_and_draw([s EXCEPT !.flip_horizontally = ~s.flip_horizontally], s.current_frame)

\* ------------------------------------------------------------ InputManager

\* The result of checkInputs when no row matches (None).
NoAction == "None"

\* Faulty variant of inputs: the last row is missing.
inputs_without_last_row ==
    << <<113, "quit_video">>,
       <<97,  "skip_backward">>,
       <<100, "skip_forward">>,
       <<114, "screen_scale_up">>,
       <<116, "screen_scale_down">>,
       <<102, "toggle_fullscreen">>,
       <<104, "toggle_debug">>,
       <<32,  "toggle_pause">>,
       <<65,  "skip_one_frame_backward">>,
       <<68,  "skip_one_frame_forward">> >>

\* InputManager.inputs: key code and handler of every row, in order.
inputs ==
    << <<113, "quit_video">>,
       <<97,  "skip_backward">>,
       <<100, "skip_forward">>,
       <<114, "screen_scale_up">>,
       <<116, "screen_scale_down">>,
       <<102, "toggle_fullscreen">>,
       <<104, "toggle_debug">>,
       <<32,  "toggle_pause">>,
       <<65,  "skip_one_frame_backward">>,
       <<68,  "skip_one_frame_forward">>,
       <<109, "toggle_flip_image_horizontally">> >>

\* The scan of checkInputs from row i on: the first row with the key wins.
RECURSIVE scan(_, _)
scan(i, input_key) ==
    IF i > Len(inputs) THEN NoAction
    ELSE IF inputs[i][1] = input_key THEN inputs[i][2]
    ELSE scan(i + 1, input_key)

\* Faulty variant of checkInputs: a key without a row falls back to the first row.
checkInputs_default_first(input_key) ==
    IF input_key = -1 THEN NoAction
    ELSE IF scan(1, input_key) = NoAction THEN inputs[1][2]
    ELSE scan(1, input_key)

\* Faulty variant of checkInputs: the scan starts at the second row.
checkInputs_skips_first_row(input_key) ==
    IF input_key = -1 THEN NoAction ELSE scan(2, input_key)

\* InputManager.checkInputs
checkInputs(input_key) ==
    IF input_key = -1 THEN NoAction ELSE scan(1, input_key)

\* VideoPlayer.input_action: None is ignored, every handler of the table is
\* callable and is called on the player.
input_action(s, action) ==
    CASE action = NoAction -> s
      [] action = "quit_video" -> quit_video(s)
      [] action = "skip_backward" -> skip_backward(s)
      [] action = "skip_forward" -> skip_forward(s)
      [] action = "screen_scale_up" -> screen_scale_up(s)
      [] action = "screen_scale_down" -> screen_scale_down(s)
      [] action = "toggle_fullscreen" -> toggle_fullscreen(s)
      [] action = "toggle_debug" -> toggle_debug(s)
      [] action = "toggle_pause" -> toggle_pause(s)
      [] action = "skip_one_frame_backward" -> skip_one_frame_backward(s)
      [] action = "skip_one_frame_forward" -> skip_one_frame_forward(s)
      [] action = "toggle_flip_image_horizontally" -> toggle_flip_image_horizontally(s)

\* The key codes cv2.waitKey returns here: -1 (no key), the bound codes and
\* two codes without a row.
Keys == {-1, 0, 122} \cup {inputs[i][1] : i \in 1..Len(inputs)}

\* ------------------------------------------------------------------- state

\* The position not yet set by cv2.moveWindow.
NoPos == <<>>

\* The value of the error field of a player whose construction raised nothing.
NoError == "None"

\* An attribute __init__ has not assigned when it raises.
Unset == "unset"

\* VideoPlayer.__init__ up to the call of update(), when nothing is raised.
InitPlayer(n, fps, vsize, msize) ==
    [vid_opened |-> TRUE, vid_pos |-> 0,
     skipping_time |-> 3,
     current_frame |-> 0,
     frames_per_second |-> fps,
     milseconds_per_frame |-> Trunc(428, fps),
     amount_of_frames |-> n,
     monitor_size |-> msize,
     vid_size |-> vsize,
     displayed_vid_size |-> vsize,
     screen_scale |-> 0,
     is_running |-> TRUE,
     is_paused |-> FALSE,
     is_fullscreen |-> FALSE,
     show_debug_text |-> FALSE,
     flip_horizontally |-> FALSE,
     window_pos |-> NoPos, shown |-> NoFrame,
     overlay |-> <<>>,
     releases |-> 0, destroys |-> 0, dels |-> 0,
     dead_access |-> FALSE, invalid_seek |-> FALSE, crashed |-> FALSE,
     error |-> NoError]

\* The player __init__ leaves behind when it raises err at line 38 (mspf and n
\* not assigned) or at line 42 (both assigned): the capture is open, the
\* attributes of lines 33-39 are set, the others are not.
RaisedPlayer(err, fps, mspf, n) ==
    [vid_opened |-> TRUE, vid_pos |-> 0,
     skipping_time |-> 3,
     current_frame |-> 0,
     frames_per_second |-> fps,
     milseconds_per_frame |-> mspf,
     amount_of_frames |-> n,
     monitor_size |-> Unset,
     vid_size |-> Unset,
     displayed_vid_size |-> Unset,
     screen_scale |-> Unset,
     is_running |-> Unset,
     is_paused |-> Unset,
     is_fullscreen |-> Unset,
     show_debug_text |-> Unset,
     flip_horizontally |-> Unset,
     window_pos |-> NoPos, shown |-> NoFrame,
     overlay |-> <<>>,
     releases |-> 0, destroys |-> 0, dels |-> 0,
     dead_access |-> FALSE, invalid_seek |-> FALSE, crashed |-> FALSE,
     error |-> err]

\* Faulty variant of Construct: the interval is 1000 / fps.
Construct_1000(n, fps, vsize, msize) ==
    IF fps = 0 THEN RaisedPlayer("ZeroDivisionError", fps, Unset, Unset)
    ELSE IF Trunc(1000, fps) < 1 THEN RaisedPlayer("ValueError", fps, Trunc(1000, fps), n)
    ELSE [InitPlayer(n, fps, vsize, msize) EXCEPT !.milseconds_per_frame = Trunc(1000, fps)]

\* VideoPlayer.__init__ for a source of n frames whose frame rate has the
\* integer part fps >= 0: int(428 / fps) divides by zero for fps = 0, and an
\* interval below 1 raises ValueError.
Construct(n, fps, vsize, msize) ==
    IF fps = 0 THEN RaisedPlayer("ZeroDivisionError", fps, Unset, Unset)
    ELSE IF Trunc(428, fps) < 1 THEN RaisedPlayer("ValueError", fps, Trunc(428, fps), n)
    ELSE InitPlayer(n, fps, vsize, msize)

Snapshot(s) == [frame |-> s.current_frame, scale |-> s.screen_scale,
                paused |-> s.is_paused]

\* The state after VideoPlayer(...) was constructed from a source of n frames
\* at rate fps: at the top of update(), or out of __init__ by an exception.
Constructed(n, fps, vsize, msize) ==
    /\ vp = Construct(n, fps, vsize, msize)
    /\ pc = IF vp.error = NoError THEN "inner" ELSE "failed"
    /\ act = "init"
    /\ key = -1
    /\ pre = Snapshot(vp)

Init ==
    \E n \in 0..MaxFrames, fps \in 1..MaxFps, vsize \in VidSizes, msize \in MonitorSizes :
        Constructed(n, fps, vsize, msize)

\* Sources for the timing of the loop: few frames, frame rates around the
\* limits of the interval computation.
InitTiming ==
    \E n \in 1..MaxTimingFrames, fps \in TimingRates, vsize \in VidSizes,
       msize \in MonitorSizes :
        Constructed(n, fps, vsize, msize)

\* Where control is after a key was handled at pc `here`: an exception leaves
\* update(); the inner loop (line 84) is left only over its own condition; the
\* outer loop (line 82) is left when is_running is false.
AfterKey(s, here) ==
    IF s.crashed THEN "crashed"
    ELSE IF here = "inner" THEN "inner"
    ELSE IF s.is_running THEN "inner" ELSE "done"

\* Lines 84-86: the player is paused and a key arrives (waitKey(0) blocks
\* until one does).
PausedKey(k) ==
    /\ pc = "inner"
    /\ vp.is_paused
    /\ k # -1
    /\ vp' = input_action(vp, checkInputs(k))
    /\ pc' = AfterKey(vp', "inner")
    /\ act' = checkInputs(k)
    /\ key' = k
    /\ pre' = Snapshot(vp)

\* Lines 88-92: the sequential read of the loop and the drawing of its frame.
MainRead ==
    /\ pc = "inner"
    /\ ~vp.is_paused
    /\ LET r == get_frame(vp, -1)
       IN  IF ~r.ret
           THEN vp' = r.s /\ pc' = "done"
           ELSE vp' = draw_frame(r.s, r.frame) /\ pc' = "wait"
    /\ act' = "read"
    /\ key' = -1
    /\ pre' = Snapshot(vp)

\* Lines 95-96 and the loop condition of line 82: the bounded key wait returns
\* k (-1 on a timeout) and its action is applied.
RunKey(k) ==
    /\ pc = "wait"
    /\ vp' = input_action(vp, checkInputs(k))
    /\ pc' = AfterKey(vp', "wait")
    /\ act' = checkInputs(k)
    /\ key' = k
    /\ pre' = Snapshot(vp)

\* The interpreter destroys the player after update() has returned or raised,
\* or after __init__ has raised.
Finalize ==
    /\ pc \in {"done", "crashed", "failed"}
    /\ vp' = del_(vp)
    /\ pc' = "dead"
    /\ act' = "__del__"
    /\ key' = -1
    /\ pre' = Snapshot(vp)

Next ==
    \/ \E k \in Keys : PausedKey(k)
    \/ MainRead
    \/ \E k \in Keys : RunKey(k)
    \/ Finalize

Spec == Init /\ [][Next]_vars

SpecTiming == InitTiming /\ [][Next]_vars

\* The steps of the player when no key event ever arrives: every bounded key
\* wait times out.
NextNoKey ==
    \/ MainRead
    \/ RunKey(-1)
    \/ Finalize

\* The loop keeps running: a read that can be made is made, and the bounded
\* wait of line 95 returns.
SpecNoKey ==
    Init /\ [][NextNoKey]_vars /\ WF_vars(MainRead) /\ WF_vars(RunKey(-1))

\* ------------------------------------------------------------------ claims

\* The fields of the player that make up its playback state.
PlaybackState(s) ==
    [current_frame |-> s.current_frame, amount_of_frames |-> s.amount_of_frames,
     vid_size |-> s.vid_size, displayed_vid_size |-> s.displayed_vid_size,
     monitor_size |-> s.monitor_size, screen_scale |-> s.screen_scale,
     is_running |-> s.is_running, is_paused |-> s.is_paused,
     is_fullscreen |-> s.is_fullscreen, show_debug_text |-> s.show_debug_text,
     flip_horizontally |-> s.flip_horizontally,
     milseconds_per_frame |-> s.milseconds_per_frame]

SeekActs == {"skip_forward", "skip_backward",
             "skip_one_frame_forward", "skip_one_frame_backward"}

ViewActs == {"screen_scale_up", "screen_scale_down", "toggle_fullscreen",
             "toggle_debug", "toggle_flip_image_horizontally"}

BoundCodes == {113, 97, 100, 114, 116, 102, 104, 32, 65, 68, 109}

Clamp(x, lo, hi) == IF x < lo THEN lo ELSE IF x > hi THEN hi ELSE x

\* C1: in every reachable state, also after the read that finds the source
\* exhausted, 0 <= currentFrameIndex <= totalFrameCount.
C1_FrameIndexInRange ==
    0 <= vp.current_frame /\ vp.current_frame <= vp.amount_of_frames

\* C2: once teardown has released the Frame Source, no later step reads from
\* it or seeks in it, whether quit came while Running or while Paused.
C2_NoAccessAfterTeardown == ~vp.dead_access

\* C3: on every route to Ended the Frame Source is released exactly once and
\* the display surface is destroyed exactly once, the quit path and the
\* destructor counted together.
C3_TeardownExactlyOnce ==
    /\ vp.releases <= 1
    /\ vp.destroys <= 1
    /\ pc = "dead" => (vp.releases = 1 /\ vp.destroys = 1)

\* C4: a second quit call (quit_video is a call of __del__) after the first
\* has ended playback leaves the playback state as it was and releases the
\* Frame Source no second time.
C4_SecondQuitNoOp ==
    [][(vp.dels >= 1 /\ vp'.dels = vp.dels + 1)
          => (PlaybackState(vp') = PlaybackState(vp) /\ vp'.releases = vp.releases)]_vars

C4_Witness ==
    vp.dels = 2 /\ act = "__del__" /\ vp.releases = 1 /\ ~vp.is_running

\* C5: screenScaleLevel stays within [-4, 4]; scale-up at 4 and scale-down at
\* -4 leave it unchanged.
C5_ScaleBounded ==
    /\ vp.screen_scale \in -4..4
    /\ (act = "screen_scale_up" /\ pre.scale = 4) => vp.screen_scale = 4
    /\ (act = "screen_scale_down" /\ pre.scale = -4) => vp.screen_scale = -4

C5_Witness ==
    act = "screen_scale_up" /\ pre.scale = 4 /\ vp.screen_scale = 4

\* The displayed size the specification derives from native size V, scale
\* level s, the fullscreen flag and the monitor size M.
ExpectedSize(V, s, fullscreen, M) ==
    IF fullscreen THEN <<M[1] + (M[1] \div 64), M[2]>>
    ELSE IF s = 0 THEN V
    ELSE IF s > 0 THEN <<V[1] + ((s * V[1]) \div 4), V[2] + ((s * V[2]) \div 4)>>
    ELSE <<(V[1] * 85) \div (100 * (-s)), (V[2] * 85) \div (100 * (-s))>>

\* C6: in every reachable state the displayed size is the function of native
\* size, scale level and fullscreen flag given by the specification.
C6_DisplayedSizeDerived ==
    vp.displayed_vid_size =
        ExpectedSize(vp.vid_size, vp.screen_scale, vp.is_fullscreen, vp.monitor_size)

C6_Witness ==
    /\ act = "toggle_fullscreen" /\ ~vp.is_fullscreen /\ vp.screen_scale = -3
    /\ vp.displayed_vid_size = <<5, 2>>

\* The frame delta of a seek action.
Delta(a, s) ==
    CASE a = "skip_forward" -> s.frames_per_second * 3
      [] a = "skip_backward" -> -(s.frames_per_second * 3)
      [] a = "skip_one_frame_forward" -> 1
      [] a = "skip_one_frame_backward" -> -1

\* C7: a seek action applied at index c leaves the index at
\* clamp(c + d, 0, totalFrameCount).
C7_SeekClamps ==
    act \in SeekActs =>
        vp.current_frame = Clamp(pre.frame + Delta(act, vp), 0, vp.amount_of_frames)

\* C8: while Paused the loop performs no sequential read, the index changes
\* only by a dispatched seek action, and a seek or view action leaves the
\* state Paused.
C8_PausedNoAdvance ==
    [][(vp.is_running /\ vp.is_paused)
          => /\ act' # "read"
             /\ vp'.current_frame # vp.current_frame => act' \in SeekActs
             /\ act' \in (SeekActs \cup ViewActs) => (vp'.is_running /\ vp'.is_paused)]_vars

C10_UnboundKeyIgnored ==
    [][(act' \notin {"read", "__del__"} /\ key' \notin BoundCodes)
          => (vp' = vp /\ pc' = "inner")]_vars

C10_Witness ==
    /\ act = NoAction /\ key = 122 /\ pc = "inner"
    /\ vp.is_running /\ ~vp.is_paused /\ vp.current_frame > 0

\* The rows of the binding table that hold key code k.
RowsOf(k) == {i \in 1..Len(inputs) : inputs[i][1] = k}

\* What the Input Mapper is specified to resolve k to: the action of the first
\* row holding k, no action when there is none.
ResolveSpec(k) ==
    IF RowsOf(k) = {} THEN NoAction
    ELSE inputs[CHOOSE i \in RowsOf(k) : \A j \in RowsOf(k) : i <= j][2]

\* C11: the key codes of the binding table are pairwise distinct, and every
\* key code resolves to the action of its (first) row, or to no action when it
\* has no row or is -1.
C11_ResolveExact ==
    /\ \A i, j \in 1..Len(inputs) : i # j => inputs[i][1] # inputs[j][1]
    /\ \A k \in Keys : checkInputs(k) = ResolveSpec(k)
    /\ checkInputs(-1) = NoAction
    /\ act \notin {"init", "read", "__del__"} => act = ResolveSpec(key)

C11_Witness ==
    act = "quit_video" /\ key = 113 /\ ~vp.is_running /\ vp.releases = 1

\* The controller waits for a key event: at the bounded wait of the running
\* loop or at the blocking wait of the paused loop.
Waiting == pc = "wait" \/ (pc = "inner" /\ vp.is_running /\ vp.is_paused)

\* The twelve actions of the specification's default keybinding table, by the
\* name of their handler.
TwelveActions ==
    {"quit_video", "toggle_pause", "skip_backward", "skip_forward",
     "skip_one_frame_backward", "skip_one_frame_forward", "screen_scale_up",
     "screen_scale_down", "toggle_fullscreen", "toggle_debug",
     "toggle_flip_image_horizontally", "toggle_zoom"}

\* C12 as stated: each of the twelve actions, ToggleZoom among them, is bound
\* to some key code, so that a key event can dispatch it whenever the
\* controller waits for one.
C12_AllTwelveBound ==
    Waiting => \A a \in TwelveActions : \E k \in Keys : checkInputs(k) = a

\* C12 as amended: each of the eleven actions other than ToggleZoom is bound to
\* a key code and is what a key event with that code dispatches; no row of the
\* table binds ToggleZoom.
C12_ElevenBound ==
    /\ Waiting =>
          \A a \in TwelveActions \ {"toggle_zoom"} : \E k \in Keys : checkInputs(k) = a
    /\ \A i \in 1..Len(inputs) : inputs[i][2] # "toggle_zoom"
    /\ act # "toggle_zoom"

C12_Witness ==
    act = "toggle_flip_image_horizontally" /\ key = 109 /\ vp.flip_horizontally

\* C13 as stated: when fullscreen is toggled off at level +2, the displayed
\* size is the scale-derived size for level 0.
C13_FullscreenOffGivesLevel0 ==
    (act = "toggle_fullscreen" /\ ~vp.is_fullscreen /\ vp.screen_scale = 2)
        => vp.displayed_vid_size = ExpectedSize(vp.vid_size, 0, FALSE, vp.monitor_size)

\* C13 as amended: toggling fullscreen on and off keeps the scale level, and
\* toggling it off gives the scale-derived size for the kept level (+2 in the
\* scenario), not the fullscreen size.
C13_FullscreenOffGivesKeptLevel ==
    [][act' = "toggle_fullscreen"
          => /\ vp'.screen_scale = vp.screen_scale
             /\ vp'.is_fullscreen = ~vp.is_fullscreen
             /\ vp.is_fullscreen =>
                  /\ vp'.displayed_vid_size =
                        ExpectedSize(vp.vid_size, vp.screen_scale, FALSE, vp.monitor_size)
                  /\ vp'.displayed_vid_size # vp.displayed_vid_size]_vars

C13_Witness ==
    /\ act = "toggle_fullscreen" /\ ~vp.is_fullscreen /\ vp.screen_scale = 2
    /\ vp.vid_size = <<20, 10>> /\ vp.displayed_vid_size = <<30, 15>>

\* C18: every index the controller passes to the seek operation of the Frame
\* Source is a frame position, one of 0..totalFrameCount-1.
C18_SeekIndexValid == ~vp.invalid_seek

\* C19: whenever the controller waits for a key event, currentFrameIndex
\* equals the position counter of the Frame Source.
C19_IndexIsSourcePosition == Waiting => vp.current_frame = vp.vid_pos

\* C20: the quit step, and every step of the loop between it and the loop's
\* termination, leaves currentFrameIndex as it was when quit was dispatched.
C20_QuitKeepsPosition ==
    [][(act' = "quit_video" \/ (act = "quit_video" /\ pc = "inner"))
          => vp'.current_frame = vp.current_frame]_vars

\* C15: for every reported frame rate, construction either fails with the
\* InvalidConfiguration error (ValueError) before the loop starts or sets
\* frameIntervalMillis >= 1.
C15_IntervalAtLeastOne ==
    IF vp.error = NoError
    THEN vp.milseconds_per_frame >= 1
    ELSE vp.error = "ValueError" /\ act \in {"init", "__del__"} /\ vp.shown = NoFrame

\* round(n / d) of Python for n >= 0, d > 0: to the nearest integer, a tie to
\* the even one.
RoundDiv(n, d) ==
    LET q == n \div d
        r == n % d
    IN  IF 2 * r < d THEN q
        ELSE IF 2 * r > d THEN q + 1
        ELSE IF q % 2 = 0 THEN q ELSE q + 1

\* C16 as stated: the interval is round(1000 / fps), and construction is
\* rejected exactly for the fps where that is less than 1.
C16_IntervalIsRound1000 ==
    vp.frames_per_second >= 1 =>
        IF vp.error = NoError
        THEN /\ vp.milseconds_per_frame = RoundDiv(1000, vp.frames_per_second)
             /\ vp.milseconds_per_frame >= 1
        ELSE RoundDiv(1000, vp.frames_per_second) < 1

\* C16 as amended: for fps >= 1 the interval is trunc(428 / fps), and
\* construction is rejected, with ValueError and before the loop starts,
\* exactly for the fps where that is less than 1 (fps > 428).
C16_IntervalIs428Trunc ==
    vp.frames_per_second >= 1 =>
        /\ vp.error = NoError <=> vp.frames_per_second <= 428
        /\ vp.error = NoError =>
              /\ vp.milseconds_per_frame * vp.frames_per_second <= 428
              /\ 428 < (vp.milseconds_per_frame + 1) * vp.frames_per_second
        /\ vp.error # NoError =>
              /\ vp.error = "ValueError"
              /\ vp.milseconds_per_frame = 0
              /\ pc \in {"failed", "dead"}

C16_Witness ==
    pc = "failed" /\ vp.frames_per_second = 429 /\ vp.error = "ValueError"

\* C17: with no key event the loop renders the frames for index 1, 2, ..., N
\* once each in this order (the frame for index c + 1 is frame c of the
\* source), then the read that returns no frame ends playback and the loop;
\* nothing is rendered after that.
C17_PlaysThroughThenEnds ==
    /\ <>(pc \in {"done", "dead"} /\ ~vp.is_running
            /\ (vp.amount_of_frames > 0 => vp.shown = vp.amount_of_frames - 1))
    /\ [][vp'.shown # vp.shown
            => /\ act' = "read"
               /\ vp.is_running
               /\ vp'.shown = vp.current_frame
               /\ vp'.current_frame = vp.current_frame + 1]_vars
    /\ [][(act' = "read" /\ vp.current_frame < vp.amount_of_frames)
            => vp'.shown = vp.current_frame]_vars
    /\ [][(act' = "read" /\ vp.current_frame >= vp.amount_of_frames)
            => (~vp'.is_running /\ pc' = "done")]_vars

C17_Witness ==
    /\ pc = "done" /\ act = "read" /\ ~vp.is_running
    /\ vp.amount_of_frames = 3 /\ vp.shown = 2 /\ vp.current_frame = 4

\* The status line of a resolution v: "R: (x, y)".
ResolutionLine(v) == <<"R: ", "(", ToString(v[1]), ", ", ToString(v[2]), ")">>

\* The frame shown carries the status line of resolution v.
OverlayShows(v) ==
    \E i \in 1..(Len(vp.overlay) - 5) : SubSeq(vp.overlay, i, i + 5) = ResolutionLine(v)

\* C14 as stated: the status lines composed for the overlay contain the
\* displayed frame size when not fullscreen and exactly monitorSize when
\* fullscreen.
C14_ResolutionOrMonitorSize ==
    vp.show_debug_text =>
        OverlayShows(IF vp.is_fullscreen THEN vp.monitor_size ELSE vp.displayed_vid_size)

\* C14 as amended: the status lines composed for the overlay contain the
\* displayed frame size, which in fullscreen is
\* monitorSize + (monitorSize.x // 64, 0).
C14_ResolutionIsDisplayedSize ==
    vp.show_debug_text =>
        /\ OverlayShows(vp.displayed_vid_size)
        /\ updateTexts(vp)[2] = ResolutionLine(vp.displayed_vid_size)
        /\ vp.is_fullscreen =>
              OverlayShows(<<vp.monitor_size[1] + (vp.monitor_size[1] \div 64),
                             vp.monitor_size[2]>>)

C14_Witness ==
    /\ vp.show_debug_text /\ vp.is_fullscreen /\ act = "toggle_fullscreen"
    /\ OverlayShows(<<132, 70>>)

====
